---- MODULE Spec2Model ----
(***************************************************************************)
(* A model of the concurrent core of @xbibzlibrary/kompreser:              *)
(*   - WorkerPool      (src/src/core/CompressionEngine.js, 384-523)        *)
(*   - LRUCache        (src/src/core/CompressionEngine.js, 548-613)        *)
(*   - Kompreser.compress / compressBatch with the ErrorHandler            *)
(*     (src/src/core/Kompreser.js, src/unnamed/part_002)                   *)
(* Each subsystem has its own specification (SpecPool, SpecCache,          *)
(* SpecCompress, SpecBatch); the variables of the other subsystems stay    *)
(* at their initial values.                                                *)
(***************************************************************************)
EXTENDS Integers, Sequences, FiniteSets, TLC

(***************************************************************************)
(* Bounds of the model.                                                    *)
(***************************************************************************)
\* options.maxWorkers handed to the WorkerPool constructor
MaxWorkers == 2
\* number of process() calls explored
MaxTasks == 3
\* cap on the workerId counter (initial workers plus restarts)
MaxWorkerIds == 4
\* options.maxSize handed to the LRUCache constructor (a byte budget)
CacheMaxSize == 4
\* number of distinct cache keys explored
MaxKeys == 3
\* number of compress() calls explored
MaxCalls == 2
\* number of pixels of the largest image handed to the PNG encoder
MaxPngPixels == 3
\* number of pixels of the largest image handed to the JPEG encoder
MaxJpegPixels == 2
\* the qualities explored for the scale mappings are the multiples of 1 / QualitySteps
QualitySteps == 20
\* the qualities explored for JPEG runs are the multiples of 1 / JpegQualitySteps
JpegQualitySteps == 10

\* the re-entries of one compress() call that are followed
RetryCap == 10

\* the longest pixel buffer of an image-data object handed to the validator
MaxDataLen == 6

\* the largest width and height of an image-data object handed to the validator
MaxDim == 2

\* calls of the engine's compress() in one run
MaxEngineCalls == 3

\* the longest list of pixels handed to medianCut
MaxCutPixels == 3

\* the largest maxColors handed to medianCut
MaxCutColors == 3

\* the most pixels of an image handed to analyzeContent
MaxContentPixels == 12

(***************************************************************************)
(* Program constants.                                                      *)
(***************************************************************************)
\* options.maxRetries, the default of Kompreser and of ErrorHandler
MaxRetries == 3

VARIABLES
  \* ---- WorkerPool ----
  workers,      \* this.workers: the array of workerInfo objects, as their ids
  workerInfo,   \* every workerInfo object ever created: id -> [busy, terminated, inbox]
  taskQueue,    \* this.taskQueue: task ids, oldest first
  activeTasks,  \* this.activeTasks: the keys of the Map
  workerId,     \* this.workerId
  taskSeq,      \* number of process() calls made; task ids are 1..taskSeq in call order
  settled,      \* state of each task's promise: "pending", "resolved" or "rejected"
  microtasks,   \* continuations suspended at an await, in resumption order
  poolInit,     \* whether initialize() has been called
  \* ---- LRUCache ----
  cache,        \* this.cache: the Map, as its entries [key, value] in iteration order
  totalSize,    \* this.totalSize
  recency,      \* history: the keys in order of last use (get hit or set), oldest first
  lastOp,       \* history: the last cache operation and the keys its eviction loop deleted
  \* ---- Kompreser.compress and the ErrorHandler ----
  callPc,           \* where each compress() call stands
  callInput,        \* its input argument
  callOpts,         \* its options argument (the pinned output format)
  callError,        \* the error its last failed attempt raised
  callRecovered,    \* what attemptRecovery answered for that error
  callResult,       \* the value the call resolved with
  retries,          \* how many times the call re-entered compress(input, options)
  codecCalls,       \* whether an algorithm's compress() ran for the call
  processorCalls,   \* whether processor.processInput ran for the call
  fallbackAttempts, \* how many times compressWithAlgorithm ran a fallback for the call
  priorResolved,    \* history: the calls that had resolved when this call was made
  errorCounts,      \* ErrorHandler.errorCounts: error code -> count
  \* ---- Kompreser.compressBatch ----
  batchPc,          \* "idle", "running" or "returned"
  batchInputs,      \* the inputs array of the batch
  batchOpts,        \* the options of the batch
  batchResults,     \* the results array: index -> slot
  \* ---- PNGCompression ----
  pngImage,         \* the imageData of the last compress(): [width, height, data]
  pngPath,          \* which deflate ran: "wasm" or "js"
  pngStream,        \* deflateCompress(applyFiltering(imageData)) of that call
  \* ---- JPEGCompression and ProgressiveCompression ----
  jpegImage,        \* the image of the JPEG runs: [width, height, dct]
  jpegPrev,         \* history: the JPEG run before the last: [quality, scale, data]
  jpegLast,         \* the last JPEG run
  scalePrev,        \* history: the scale computation before the last: [codec, quality, scale]
  scaleLast,        \* the last scale computation
  \* ---- Kompreser.determineCompressionStrategy ----
  stratSelf,        \* this.options of the Kompreser instance
  stratPrev,        \* history: the strategy call before the last
  stratLast,        \* the last strategy call: arguments and state before and after, result
  \* ---- CompressionEngine.compress ----
  engineLast,       \* the last engine call: image, options and what the call gave
  \* ---- PNGCompression.medianCut ----
  cutLast,          \* the last medianCut call: pixels, maxColors and what the call gave
  \* ---- ImageAnalyzer.analyzeContent ----
  contentLast,      \* the last analyzeContent call: the image and the content it reported
  compressionStats, \* this.compressionStats of the engine
  engineReturns,    \* how many calls of the engine's compress() returned a result
  engineThrows,     \* how many calls of the engine's compress() threw
  \* ---- FileValidator.validateInput on image data, and the gate of compress ----
  valInput,         \* the image-data object handed to compress()
  valValidation,    \* the validation object validateInput returned
  valStage,         \* how far compress() got: "idle", "rejected", "analyzed"
  \* ---- FileValidator.validateInput on a File ----
  fileLast          \* the last File validated: constructor options, file, validation

poolVars == <<workers, workerInfo, taskQueue, activeTasks, workerId, taskSeq,
              settled, microtasks, poolInit>>

cacheVars == <<cache, totalSize, recency, lastOp>>

compVars == <<callPc, callInput, callOpts, callError, callRecovered, callResult,
              retries, codecCalls, processorCalls, fallbackAttempts, priorResolved,
              errorCounts>>

batchVars == <<batchPc, batchInputs, batchOpts, batchResults>>

pngVars == <<pngImage, pngPath, pngStream>>

\* the state of the algorithm and strategy objects
jpegVars == <<jpegImage, jpegPrev, jpegLast>>

scaleVars == <<scalePrev, scaleLast>>

stratVars == <<stratSelf, stratPrev, stratLast>>

engineVars == <<engineLast, compressionStats, engineReturns, engineThrows>>

valVars == <<valInput, valValidation, valStage>>

fileVars == <<fileLast>>

cutVars == <<cutLast>>

contentVars == <<contentLast>>

fnVars == <<pngVars, jpegVars, scaleVars, stratVars, engineVars, valVars, fileVars,
            cutVars, contentVars>>

vars == <<poolVars, cacheVars, compVars, batchVars, fnVars>>

\* what the operations of one subsystem leave alone
notPool  == <<cacheVars, compVars, batchVars, fnVars>>
notCache == <<poolVars, compVars, batchVars, fnVars>>
notFn    == <<poolVars, cacheVars, compVars, batchVars, cutVars, contentVars>>
notCut   == <<pngVars, jpegVars, scaleVars, stratVars, engineVars, valVars, fileVars,
              contentVars, poolVars, cacheVars, compVars, batchVars>>
notContent == <<pngVars, jpegVars, scaleVars, stratVars, engineVars, valVars, fileVars,
                cutVars, poolVars, cacheVars, compVars, batchVars>>

(***************************************************************************)
(* Helpers                                                                 *)
(***************************************************************************)
Range(s) == {s[i] : i \in 1..Len(s)}

MinOf(S) == CHOOSE x \in S : \A y \in S : x <= y

\* Array.prototype.splice(index, 1): removes the element at the 0-based index, if any
Splice1(s, idx0) ==
  IF idx0 + 1 \in 1..Len(s)
    THEN [i \in 1..(Len(s) - 1) |-> IF i < idx0 + 1 THEN s[i] ELSE s[i + 1]]
    ELSE s

\* Array.prototype.findIndex(w => w.id === id): 0-based index, or -1
FindIndex(s, id) ==
  IF \E i \in 1..Len(s) : s[i] = id
    THEN MinOf({i \in 1..Len(s) : s[i] = id}) - 1
    ELSE -1

(***************************************************************************)
(* WorkerPool                                                              *)
(***************************************************************************)
NewWorkerInfo == [busy |-> FALSE, terminated |-> FALSE, inbox |-> 0]

\* createWorker(): the body has no await, so a call runs to the push at once.
\* Yields the new <<workers, workerInfo, workerId>>.
CreateWorker(ws, wi, wid) ==
  [ws  |-> Append(ws, wid + 1),
   wi  |-> [i \in 1..(wid + 1) |-> IF i <= wid THEN wi[i] ELSE NewWorkerInfo],
   wid |-> wid + 1]

\* A mutant of processQueue: takes the newest queued task (pop instead of shift).
ProcessQueueLIFO(ws, wi, q, act) ==
  IF q = <<>> THEN [wi |-> wi, q |-> q, act |-> act]
  ELSE LET avail == {i \in 1..Len(ws) : ~wi[ws[i]].busy} IN
    IF avail = {} THEN [wi |-> wi, q |-> q, act |-> act]
    ELSE LET w == ws[MinOf(avail)]
             t == q[Len(q)]
         IN [wi  |-> [wi EXCEPT ![w] = [busy |-> TRUE,
                                       terminated |-> wi[w].terminated,
                                       inbox |-> IF wi[w].terminated THEN wi[w].inbox ELSE t]],
             q   |-> SubSeq(q, 1, Len(q) - 1),
             act |-> act \cup {t}]

\* processQueue(): dispatches at most one task, the head of taskQueue, to the
\* first worker of the array that is not busy.  A message posted to a
\* terminated worker is dropped.
ProcessQueue(ws, wi, q, act) ==
  IF q = <<>> THEN [wi |-> wi, q |-> q, act |-> act]
  ELSE LET avail == {i \in 1..Len(ws) : ~wi[ws[i]].busy} IN
    IF avail = {} THEN [wi |-> wi, q |-> q, act |-> act]
    ELSE LET w == ws[MinOf(avail)]
             t == Head(q)
         IN [wi  |-> [wi EXCEPT ![w] = [busy |-> TRUE,
                                       terminated |-> wi[w].terminated,
                                       inbox |-> IF wi[w].terminated THEN wi[w].inbox ELSE t]],
             q   |-> Tail(q),
             act |-> act \cup {t}]

InitPoolVars ==
  /\ workers = <<>>
  /\ workerInfo = <<>>
  /\ taskQueue = <<>>
  /\ activeTasks = {}
  /\ workerId = 0
  /\ taskSeq = 0
  /\ settled = <<>>
  /\ microtasks = <<>>
  /\ poolInit = FALSE

\* initialize(): the first loop iteration runs createWorker() and suspends at the await.
Initialize ==
  /\ ~poolInit
  /\ poolInit' = TRUE
  /\ IF 0 < MaxWorkers
       THEN LET c == CreateWorker(workers, workerInfo, workerId) IN
              /\ workers' = c.ws
              /\ workerInfo' = c.wi
              /\ workerId' = c.wid
              /\ microtasks' = Append(microtasks, [kind |-> "init", i |-> 0])
       ELSE UNCHANGED <<workers, workerInfo, workerId, microtasks>>
  /\ UNCHANGED <<taskQueue, activeTasks, taskSeq, settled, notPool>>

\* initialize() resumed after `await this.createWorker()`: i++, test, next createWorker().
InitializeResume ==
  /\ microtasks # <<>>
  /\ Head(microtasks).kind = "init"
  /\ LET i == Head(microtasks).i + 1 IN
       IF i < MaxWorkers
         THEN LET c == CreateWorker(workers, workerInfo, workerId) IN
                /\ workers' = c.ws
                /\ workerInfo' = c.wi
                /\ workerId' = c.wid
                /\ microtasks' = Append(Tail(microtasks), [kind |-> "init", i |-> i])
         ELSE /\ microtasks' = Tail(microtasks)
              /\ UNCHANGED <<workers, workerInfo, workerId>>
  /\ UNCHANGED <<taskQueue, activeTasks, taskSeq, settled, poolInit, notPool>>

\* process(data): push the task, then processQueue().
Process ==
  /\ taskSeq < MaxTasks
  /\ LET t == taskSeq + 1
         r == ProcessQueue(workers, workerInfo, Append(taskQueue, t), activeTasks)
     IN /\ taskSeq' = t
        /\ settled' = [i \in 1..t |-> IF i < t THEN settled[i] ELSE "pending"]
        /\ workerInfo' = r.wi
        /\ taskQueue' = r.q
        /\ activeTasks' = r.act
  /\ UNCHANGED <<workers, workerId, microtasks, poolInit, notPool>>

\* worker.onmessage -> handleWorkerMessage(workerInfo, {id, result | error}).
\* A message event is a task of the event loop: it runs only when no
\* continuation is pending.  The worker answers the message in its inbox
\* with a result or with an error string.
WorkerReply(w, outcome) ==
  /\ microtasks = <<>>
  /\ w \in 1..workerId
  /\ ~workerInfo[w].terminated
  /\ workerInfo[w].inbox # 0
  /\ LET id == workerInfo[w].inbox
         wi0 == [workerInfo EXCEPT ![w].inbox = 0]
     IN IF id \in activeTasks
          THEN LET wi1 == [wi0 EXCEPT ![w].busy = FALSE]
                   r == ProcessQueue(workers, wi1, taskQueue, activeTasks \ {id})
               IN /\ settled' = [settled EXCEPT ![id] = outcome]
                  /\ workerInfo' = r.wi
                  /\ taskQueue' = r.q
                  /\ activeTasks' = r.act
          ELSE /\ workerInfo' = wi0
               /\ UNCHANGED <<settled, taskQueue, activeTasks>>
  /\ UNCHANGED <<workers, workerId, taskSeq, microtasks, poolInit, notPool>>

\* restartWorker(id) up to its await: findIndex, terminate the old worker,
\* createWorker() (which pushes the new worker at once), suspend.
RestartBegin(id) ==
  LET workerIndex == FindIndex(workers, id) IN
    IF workerIndex # -1
      THEN LET wi0 == [workerInfo EXCEPT ![id].terminated = TRUE, ![id].inbox = 0]
               c == CreateWorker(workers, wi0, workerId)
           IN /\ workers' = c.ws
              /\ workerInfo' = c.wi
              /\ workerId' = c.wid
              /\ microtasks' = Append(microtasks, [kind |-> "restart", i |-> workerIndex])
      ELSE UNCHANGED <<workers, workerInfo, workerId, microtasks>>

\* worker.onerror: an uncaught error in a live worker; the handler calls restartWorker.
WorkerError(w) ==
  /\ microtasks = <<>>
  /\ w \in 1..workerId
  /\ ~workerInfo[w].terminated
  /\ workerId < MaxWorkerIds
  /\ RestartBegin(w)
  /\ UNCHANGED <<taskQueue, activeTasks, taskSeq, settled, poolInit, notPool>>

\* restartWorker(id) called directly (for instance by the WORKER_ERROR recovery strategy).
RestartWorker(id) ==
  /\ id \in 1..workerId
  /\ workerId < MaxWorkerIds
  /\ RestartBegin(id)
  /\ UNCHANGED <<taskQueue, activeTasks, taskSeq, settled, poolInit, notPool>>

\* restartWorker resumed after `await this.createWorker()`: splice(workerIndex, 1).
RestartResume ==
  /\ microtasks # <<>>
  /\ Head(microtasks).kind = "restart"
  /\ workers' = Splice1(workers, Head(microtasks).i)
  /\ microtasks' = Tail(microtasks)
  /\ UNCHANGED <<workerInfo, taskQueue, activeTasks, workerId, taskSeq, settled, poolInit, notPool>>

\* terminate(): terminates the workers of the array and empties the three collections.
Terminate ==
  /\ workerInfo' = [i \in 1..workerId |->
                      IF i \in Range(workers)
                        THEN [busy |-> workerInfo[i].busy, terminated |-> TRUE, inbox |-> 0]
                        ELSE workerInfo[i]]
  /\ workers' = <<>>
  /\ taskQueue' = <<>>
  /\ activeTasks' = {}
  /\ UNCHANGED <<workerId, taskSeq, settled, microtasks, poolInit, notPool>>

NextPool ==
  \/ Initialize
  \/ InitializeResume
  \/ Process
  \/ \E w \in 1..MaxWorkerIds, o \in {"resolved", "rejected"} : WorkerReply(w, o)
  \/ \E w \in 1..MaxWorkerIds : WorkerError(w)
  \/ \E id \in 1..MaxWorkerIds : RestartWorker(id)
  \/ RestartResume
  \/ Terminate


(***************************************************************************)
(* LRUCache                                                                *)
(***************************************************************************)
CacheKeys == 1..MaxKeys

\* Cached values, by the two fields set() reads: value.data.length (0 when
\* data is absent or empty) and value.size (0 when absent).
CacheValues == [dataLen : {0, 1, 2, CacheMaxSize + 1}, size : {0, 3}]

\* value.data?.length || value.size || 0
SizeOf(v) == IF v.dataLen # 0 THEN v.dataLen ELSE v.size

Keys(c) == {c[i].key : i \in 1..Len(c)}

Without(c, k) == SelectSeq(c, LAMBDA e : e.key # k)

Lookup(c, k) == (CHOOSE i \in 1..Len(c) : c[i].key = k)

RECURSIVE SumSizes(_)
SumSizes(c) == IF c = <<>> THEN 0 ELSE SizeOf(Head(c).value) + SumSizes(Tail(c))

\* the while loop of set(): delete the first key of the Map until the new
\* value fits or the Map is empty
RECURSIVE EvictLoop(_, _, _)
EvictLoop(c, total, size) ==
  IF total + size > CacheMaxSize /\ Len(c) > 0
    THEN EvictLoop(Tail(c), total - SizeOf(Head(c).value), size)
    ELSE [cache |-> c, total |-> total]

\* A mutant of get(): returns the value without moving the entry to the end.
CacheAfterGetNoMove(c, key) == c

\* get(key) on a hit: delete the entry and set it again, which moves it to the end.
CacheAfterGet(c, key) ==
  IF key \in Keys(c)
    THEN Append(Without(c, key), c[Lookup(c, key)])
    ELSE c

\* A mutant of set(): adds the entry without the eviction loop.
CacheAfterSetNoEvict(c, total, key, value) ==
  LET size == SizeOf(value)
      has == key \in Keys(c)
      t1 == IF has THEN total - SizeOf(c[Lookup(c, key)].value) ELSE total
      c1 == IF has THEN Without(c, key) ELSE c
  IN IF size <= CacheMaxSize
       THEN [cache |-> Append(c1, [key |-> key, value |-> value]), total |-> t1 + size,
             evicted |-> {}]
       ELSE [cache |-> c1, total |-> t1, evicted |-> {}]

\* set(key, value): remove the key's old entry, evict from the front while the
\* new value does not fit, add the entry when it can fit at all.
CacheAfterSet(c, total, key, value) ==
  LET size == SizeOf(value)
      has == key \in Keys(c)
      t1 == IF has THEN total - SizeOf(c[Lookup(c, key)].value) ELSE total
      c1 == IF has THEN Without(c, key) ELSE c
      ev == EvictLoop(c1, t1, size)
  IN IF size <= CacheMaxSize
       THEN [cache |-> Append(ev.cache, [key |-> key, value |-> value]),
             total |-> ev.total + size,
             evicted |-> Keys(c1) \ Keys(ev.cache)]
       ELSE [cache |-> ev.cache, total |-> ev.total,
             evicted |-> Keys(c1) \ Keys(ev.cache)]

\* the key moved to the most recent end of the order of use
Touch(r, k) == Append(SelectSeq(r, LAMBDA x : x # k), k)

PosIn(r, k) == CHOOSE i \in 1..Len(r) : r[i] = k

InitCacheVars ==
  /\ cache = <<>>
  /\ totalSize = 0
  /\ recency = <<>>
  /\ lastOp = [op |-> "none", key |-> 0, evicted |-> {}]

\* LRUCache.get(key)
CacheGet(key) ==
  /\ cache' = CacheAfterGet(cache, key)
  /\ recency' = IF key \in Keys(cache) THEN Touch(recency, key) ELSE recency
  /\ lastOp' = [op |-> "get", key |-> key, evicted |-> {}]
  /\ UNCHANGED <<totalSize, notCache>>

\* LRUCache.set(key, value)
CacheSet(key, value) ==
  LET r == CacheAfterSet(cache, totalSize, key, value) IN
    /\ cache' = r.cache
    /\ totalSize' = r.total
    /\ recency' = Touch(recency, key)
    /\ lastOp' = [op |-> "set", key |-> key, evicted |-> r.evicted]
    /\ UNCHANGED notCache

\* LRUCache.clear()
CacheClear ==
  /\ cache' = <<>>
  /\ totalSize' = 0
  /\ lastOp' = [op |-> "clear", key |-> 0, evicted |-> {}]
  /\ UNCHANGED <<recency, notCache>>

NextCache ==
  \/ \E k \in CacheKeys : CacheGet(k)
  \/ \E k \in CacheKeys, v \in CacheValues : CacheSet(k, v)
  \/ CacheClear

(***************************************************************************)
(* Kompreser.compress and ErrorHandler.handleError                         *)
(***************************************************************************)
Calls == 1..MaxCalls

\* The inputs explored: null, the string 'invalid', a value of an unsupported
\* type (a number), and two image-data objects with distinct pixel buffers.
Inputs ==
  { [kind |-> "null", buf |-> 0],
    [kind |-> "string", buf |-> 0],
    [kind |-> "other", buf |-> 0],
    [kind |-> "imagedata", buf |-> 1],
    [kind |-> "imagedata", buf |-> 2] }

\* options.format as pinned by the caller
Formats == {"jpeg", "png"}

\* error.code of the errors handleError can be handed; "undefined" is the
\* code of a plain Error
Codes == {"VALIDATION_ERROR", "FORMAT_ERROR", "COMPRESSION_ERROR", "MEMORY_ERROR",
          "WORKER_ERROR", "TIMEOUT_ERROR", "undefined"}

NoError == [code |-> "-", algorithm |-> "-", cause |-> "-"]

NoResult == [kind |-> "none", buf |-> 0, format |-> "-"]

\* The value `return result.recoveryData` yields: handleError's answer has no
\* such property.
UndefinedResult == [kind |-> "undefined", buf |-> 0, format |-> "-"]

\* options.enableRecovery, the default
EnableRecovery == TRUE

\* options.enableCaching as the caller configures it, the default
EnableCaching == TRUE

\* FileValidator.validateInput(input).valid: null makes `input.data` throw
\* inside the try, a string that does not start with 'data:image/' and a
\* value of no known type each record an error; an image-data object with
\* positive dimensions and data records warnings at most.
ValidateInput(input) ==
  CASE input.kind = "null" -> FALSE
    [] input.kind = "string" -> FALSE
    [] input.kind = "imagedata" -> TRUE
    [] OTHER -> FALSE

\* What one run of the try block of compress() can do after validation, in
\* the files at hand: fail in processor.processInput (a FormatError), in
\* analyzer.analyze (a plain Error), in compressionEngine.compress before the
\* algorithm runs or in the algorithm (both rethrown as CompressionError with
\* algorithm 'auto'), or succeed.
EngineOutcomes == {"ok", "processor", "analyzer", "engine_pre", "codec"}

\* The failures of formatConverter.convert: an error of the worker, timeout
\* or memory kind.
ConverterOutcomes == {"convert_worker", "convert_timeout", "convert_memory"}

AttemptOutcomes == EngineOutcomes \cup ConverterOutcomes

\* the error a failed formatConverter.convert throws
ConverterErrorOf(o) ==
  CASE o = "convert_worker"  -> [code |-> "WORKER_ERROR", algorithm |-> "-", cause |-> "convert"]
    [] o = "convert_timeout" -> [code |-> "TIMEOUT_ERROR", algorithm |-> "-", cause |-> "convert"]
    [] o = "convert_memory"  -> [code |-> "MEMORY_ERROR", algorithm |-> "-", cause |-> "convert"]

\* the error a failed attempt throws into the catch block
ErrorOf(o, format) ==
  CASE o = "processor"  -> [code |-> "FORMAT_ERROR", algorithm |-> "-", cause |-> "processor"]
    [] o = "analyzer"   -> [code |-> "undefined", algorithm |-> "-", cause |-> "analyzer"]
    [] o = "engine_pre" -> [code |-> "COMPRESSION_ERROR", algorithm |-> "auto", cause |-> "engine"]
    [] o = "codec"      -> [code |-> "COMPRESSION_ERROR", algorithm |-> "auto", cause |-> format]
    [] OTHER            -> ConverterErrorOf(o)

\* whether the attempt got as far as algorithm.compress()
RunsCodec(o) == o \in {"ok", "codec"} \cup ConverterOutcomes

\* fallbackAlgorithms of the COMPRESSION_ERROR recovery strategy
FallbackAlgorithms ==
  [a \in {"webp", "avif", "jpeg", "png"} |->
     CASE a = "webp" -> "jpeg" [] a = "avif" -> "webp" [] a = "jpeg" -> "png" [] a = "png" -> "jpeg"]

\* whether the COMPRESSION_ERROR strategy calls compressWithAlgorithm: the
\* table has an entry for error.algorithm and context.compressionEngine is set
TriesFallback(err) ==
  /\ EnableRecovery
  /\ err.code = "COMPRESSION_ERROR"
  /\ err.algorithm \in DOMAIN FallbackAlgorithms

\* attemptRecovery(error, context).recovered for the context compress()
\* passes: {context, compressionEngine, cache}.  The memory strategy always
\* reports recovery (context.cache is undefined: initializeCache fails on the
\* unbound name LRUCache, so nothing is cleared); the worker strategy needs context.workerPool, which is
\* absent; the fallback run gets context.imageData, which is absent, so the
\* fallback algorithm throws and the strategy reports no recovery.
Recovered(err) ==
  /\ EnableRecovery
  /\ err.code = "MEMORY_ERROR"

\* A mutant of isRetryableError: validation errors count as retryable too.
IsRetryableErrorWithValidation(err) ==
  err.code \in {"WORKER_ERROR", "TIMEOUT_ERROR", "COMPRESSION_ERROR", "VALIDATION_ERROR"}

\* isRetryableError(error)
IsRetryableError(err) ==
  err.code \in {"WORKER_ERROR", "TIMEOUT_ERROR", "COMPRESSION_ERROR"}

\* shouldRetry(error).shouldRetry, read off the counts at the time of the call
ShouldRetry(err, counts) ==
  counts[err.code] <= MaxRetries /\ IsRetryableError(err)

InitCompVars ==
  /\ callPc = [c \in Calls |-> "idle"]
  /\ callInput = [c \in Calls |-> [kind |-> "null", buf |-> 0]]
  /\ callOpts = [c \in Calls |-> "jpeg"]
  /\ callError = [c \in Calls |-> NoError]
  /\ callRecovered = [c \in Calls |-> FALSE]
  /\ callResult = [c \in Calls |-> NoResult]
  /\ retries = [c \in Calls |-> 0]
  /\ codecCalls = [c \in Calls |-> FALSE]
  /\ processorCalls = [c \in Calls |-> FALSE]
  /\ fallbackAttempts = [c \in Calls |-> 0]
  /\ priorResolved = [c \in Calls |-> {}]
  /\ errorCounts = [k \in Codes |-> 0]

\* compress(input, options) is called
InvokeCall(c, input, opts) ==
  /\ callPc[c] = "idle"
  /\ callPc' = [callPc EXCEPT ![c] = "running"]
  /\ callInput' = [callInput EXCEPT ![c] = input]
  /\ callOpts' = [callOpts EXCEPT ![c] = opts]
  /\ priorResolved' = [priorResolved EXCEPT ![c] = {d \in Calls : callPc[d] = "resolved"}]
  /\ UNCHANGED <<callError, callRecovered, callResult, retries, codecCalls,
                 processorCalls, fallbackAttempts, errorCounts>>

\* a caller invokes compress() directly; calls are taken in the order 1, 2, ...
Invoke(c, input, opts) ==
  /\ \A d \in Calls : d < c => callPc[d] # "idle"
  /\ InvokeCall(c, input, opts)
  /\ UNCHANGED <<fnVars, poolVars, cacheVars, batchVars>>

\* A mutant of the catch block: trackError does not count the error.
CaughtWithoutTracking(c, err) ==
  /\ callPc' = [callPc EXCEPT ![c] = "recovering"]
  /\ callError' = [callError EXCEPT ![c] = err]
  /\ fallbackAttempts' = [fallbackAttempts EXCEPT ![c] = IF TriesFallback(err) THEN @ + 1 ELSE @]
  /\ callRecovered' = [callRecovered EXCEPT ![c] = Recovered(err)]
  /\ UNCHANGED <<callResult, errorCounts, cacheVars>>

\* The catch block up to the await in handleError: logError, trackError and
\* the recovery strategy, none of which suspends for this context.
Caught(c, err) ==
  /\ callPc' = [callPc EXCEPT ![c] = "recovering"]
  /\ callError' = [callError EXCEPT ![c] = err]
  /\ errorCounts' = [errorCounts EXCEPT ![err.code] = @ + 1]
  /\ fallbackAttempts' = [fallbackAttempts EXCEPT ![c] = IF TriesFallback(err) THEN @ + 1 ELSE @]
  /\ callRecovered' = [callRecovered EXCEPT ![c] = Recovered(err)]
  /\ UNCHANGED <<callResult, cacheVars>>

\* One run of the try block of compress(): validation, processing, analysis,
\* the engine, the converter, generateOutput.  The cache is not consulted.
Attempt(c, o) ==
  /\ callPc[c] = "running"
  /\ IF ~ValidateInput(callInput[c])
       THEN /\ o = "ok"
            /\ Caught(c, [code |-> "VALIDATION_ERROR", algorithm |-> "-", cause |-> "validator"])
            /\ UNCHANGED <<processorCalls, codecCalls>>
       ELSE /\ processorCalls' = [processorCalls EXCEPT ![c] = TRUE]
            /\ codecCalls' = [codecCalls EXCEPT ![c] = @ \/ RunsCodec(o)]
            /\ IF o = "ok"
                 THEN /\ callPc' = [callPc EXCEPT ![c] = "resolved"]
                      /\ callResult' = [callResult EXCEPT ![c] =
                           [kind |-> "output", buf |-> callInput[c].buf, format |-> callOpts[c]]]
                      /\ UNCHANGED <<callError, callRecovered, errorCounts, fallbackAttempts,
                                     cacheVars>>
                 ELSE Caught(c, ErrorOf(o, callOpts[c]))
  /\ UNCHANGED <<callInput, callOpts, retries, priorResolved, fnVars, poolVars, batchVars>>

\* handleError after the await: report recovery, or ask shouldRetry, or give up;
\* compress() then returns recoveryData, sleeps before the re-run, or throws.
Decide(c) ==
  /\ callPc[c] = "recovering"
  /\ IF callRecovered[c]
       THEN /\ callPc' = [callPc EXCEPT ![c] = "resolved"]
            /\ callResult' = [callResult EXCEPT ![c] = UndefinedResult]
       ELSE /\ callPc' = [callPc EXCEPT ![c] =
                 IF ShouldRetry(callError[c], errorCounts) THEN "sleeping" ELSE "rejected"]
            /\ UNCHANGED callResult
  /\ UNCHANGED <<callInput, callOpts, callError, callRecovered, retries, codecCalls,
                 processorCalls, fallbackAttempts, priorResolved, errorCounts,
                 fnVars, poolVars, cacheVars, batchVars>>

\* the backoff sleep of shouldRetry ends: return this.compress(input, options)
Wake(c) ==
  /\ callPc[c] = "sleeping"
  /\ retries[c] < RetryCap
  /\ callPc' = [callPc EXCEPT ![c] = "running"]
  /\ retries' = [retries EXCEPT ![c] = @ + 1]
  /\ UNCHANGED <<callInput, callOpts, callError, callRecovered, callResult, codecCalls,
                 processorCalls, fallbackAttempts, priorResolved, errorCounts,
                 fnVars, poolVars, cacheVars, batchVars>>

NextCompress ==
  \/ \E c \in Calls, i \in Inputs, f \in Formats : Invoke(c, i, f)
  \/ \E c \in Calls, o \in AttemptOutcomes : Attempt(c, o)
  \/ \E c \in Calls : Decide(c)
  \/ \E c \in Calls : Wake(c)

(***************************************************************************)
(* Kompreser.compressBatch over BatchProcessor.process                     *)
(***************************************************************************)
InitBatchVars ==
  /\ batchPc = "idle"
  /\ batchInputs = <<>>
  /\ batchOpts = "jpeg"
  /\ batchResults = <<>>

EmptySlot == [filled |-> FALSE, success |-> FALSE, input |-> [kind |-> "null", buf |-> 0],
              result |-> NoResult, error |-> "-", order |-> 0, job |-> 0]

\* the non-empty input arrays explored
BatchInputSets == UNION {[1..n -> Inputs] : n \in 1..MaxCalls}

\* compressBatch(inputs, options): hands inputs and the callback
\* (input) => this.compress(input, options) to batchProcessor.process
BatchStart(inputs, opts) ==
  /\ batchPc = "idle"
  /\ batchPc' = "running"
  /\ batchInputs' = inputs
  /\ batchOpts' = opts
  /\ batchResults' = [i \in 1..Len(inputs) |-> EmptySlot]
  /\ UNCHANGED <<fnVars, poolVars, cacheVars, compVars>>

\* the processor runs the callback on inputs[i]: compress(inputs[i], options)
BatchDispatch(i) ==
  /\ batchPc = "running"
  /\ i \in 1..Len(batchInputs)
  /\ InvokeCall(i, batchInputs[i], batchOpts)
  /\ UNCHANGED <<fnVars, poolVars, cacheVars, batchVars>>

\* A mutant of the slot choice: results are pushed in order of completion.
SlotIndexByCompletion(i, results) ==
  Cardinality({j \in 1..Len(results) : results[j].filled}) + 1

\* the slot that takes the outcome of the job on inputs[i]: the job's own index
SlotIndex(i, results) == i

\* the callback's promise for inputs[i] settled: its outcome goes to its slot
BatchCollect(i) ==
  /\ batchPc = "running"
  /\ i \in 1..Len(batchInputs)
  /\ callPc[i] \in {"resolved", "rejected"}
  /\ ~\E j \in 1..Len(batchResults) : batchResults[j].filled /\ batchResults[j].job = i
  /\ batchResults' = [batchResults EXCEPT ![SlotIndex(i, batchResults)] =
       [filled  |-> TRUE,
        success |-> callPc[i] = "resolved",
        input   |-> callInput[i],
        result  |-> callResult[i],
        error   |-> IF callPc[i] = "rejected" THEN callError[i].code ELSE "-",
        order   |-> Cardinality({j \in 1..Len(batchResults) : batchResults[j].filled}) + 1,
        job     |-> i]]
  /\ UNCHANGED <<batchPc, batchInputs, batchOpts, fnVars, poolVars, cacheVars, compVars>>

\* every job has been collected: process() resolves and compressBatch returns results
BatchReturn ==
  /\ batchPc = "running"
  /\ Cardinality({j \in 1..Len(batchResults) : batchResults[j].filled}) = Len(batchInputs)
  /\ batchPc' = "returned"
  /\ UNCHANGED <<batchInputs, batchOpts, batchResults, fnVars, poolVars, cacheVars, compVars>>

NextBatch ==
  \/ \E inputs \in BatchInputSets, f \in Formats : BatchStart(inputs, f)
  \/ \E i \in Calls : BatchDispatch(i)
  \/ \E c \in Calls, o \in AttemptOutcomes : Attempt(c, o)
  \/ \E c \in Calls : Decide(c)
  \/ \E c \in Calls : Wake(c)
  \/ \E i \in Calls : BatchCollect(i)
  \/ BatchReturn

(***************************************************************************)
(* PNGCompression: filtering and deflate                                   *)
(***************************************************************************)
\* the sample values explored for the red channel
PngRedValues == {0, 1, 200, 201}

\* the pixels explored: [r, g, b, a], transparent or opaque
PngPixels == {<<r, 0, 0, a>> : r \in PngRedValues, a \in {0, 255}}

\* the RGBA bytes of a list of pixels, row by row
RECURSIVE Flatten(_)
Flatten(px) == IF px = <<>> THEN <<>> ELSE Head(px) \o Flatten(Tail(px))

\* the imageData objects explored: at most MaxPngPixels pixels
PngImages ==
  UNION {{[width |-> w, height |-> h, data |-> Flatten(px)] : px \in [1..(w * h) -> PngPixels]} :
         <<w, h>> \in {d \in (1..MaxPngPixels) \X (1..MaxPngPixels) : d[1] * d[2] <= MaxPngPixels}}

\* data[i], 0-based
At(data, i) == data[i + 1]

PaethPredictor(left, up, upLeft) ==
  LET p       == left + up - upLeft
      Abs(x)  == IF x < 0 THEN -x ELSE x
      pLeft   == Abs(p - left)
      pUp     == Abs(p - up)
      pUpLeft == Abs(p - upLeft)
  IN  IF pLeft <= pUp /\ pLeft <= pUpLeft THEN left
      ELSE IF pUp <= pUpLeft THEN up
      ELSE upLeft

\* applyFilterPixel(data, width, height, row, col, filter); filters are
\* NONE = 0, SUB = 1, UP = 2, AVERAGE = 3, PAETH = 4
ApplyFilterPixel(data, width, row, col, filter) ==
  LET rowStart == row * width * 4
      current  == At(data, rowStart + col)
      left     == IF col >= 4 THEN At(data, rowStart + col - 4) ELSE 0
      up       == IF row > 0 THEN At(data, (row - 1) * width * 4 + col) ELSE 0
      upLeft   == IF row > 0 /\ col >= 4 THEN At(data, (row - 1) * width * 4 + col - 4) ELSE 0
  IN  CASE filter = 0 -> current
        [] filter = 1 -> (current - left) % 256
        [] filter = 2 -> (current - up) % 256
        [] filter = 3 -> (current - ((left + up) \div 2)) % 256
        [] filter = 4 -> (current - PaethPredictor(left, up, upLeft)) % 256
        [] OTHER -> current

\* calculateFilterScore: the sum of the filtered bytes of the row, from column x on
RECURSIVE ScoreFrom(_, _, _, _, _)
ScoreFrom(data, width, row, filter, x) ==
  IF x >= width * 4 THEN 0
  ELSE ApplyFilterPixel(data, width, row, x, filter) + ScoreFrom(data, width, row, filter, x + 1)

CalculateFilterScore(data, width, row, filter) == ScoreFrom(data, width, row, filter, 0)

\* the loop of selectFilter from filter f on; bestScore -1 stands for Infinity
RECURSIVE SelectFrom(_, _, _, _, _, _)
SelectFrom(data, width, row, f, bestFilter, bestScore) ==
  IF f > 4 THEN bestFilter
  ELSE LET score == CalculateFilterScore(data, width, row, f)
       IN  IF bestScore = -1 \/ score < bestScore
             THEN SelectFrom(data, width, row, f + 1, f, score)
             ELSE SelectFrom(data, width, row, f + 1, bestFilter, bestScore)

\* the loop of selectFilter keeping the last of the filters with the best score
RECURSIVE SelectLastFrom(_, _, _, _, _, _)
SelectLastFrom(data, width, row, f, bestFilter, bestScore) ==
  IF f > 4 THEN bestFilter
  ELSE LET score == CalculateFilterScore(data, width, row, f)
       IN  IF bestScore = -1 \/ score <= bestScore
             THEN SelectLastFrom(data, width, row, f + 1, f, score)
             ELSE SelectLastFrom(data, width, row, f + 1, bestFilter, bestScore)

SelectFilterLastBest(data, width, row) == SelectLastFrom(data, width, row, 0, 0, -1)

\* selectFilter(data, width, height, row, 'auto')
SelectFilter(data, width, row) == SelectFrom(data, width, row, 0, 0, -1)

\* applyFilter(data, width, height, row, filter)
ApplyFilter(data, width, row, filter) ==
  [x \in 1..(width * 4) |-> ApplyFilterPixel(data, width, row, x - 1, filter)]

\* the loop of applyFiltering from row y on: one filter byte, then the row
RECURSIVE FilterRows(_, _)
FilterRows(img, y) ==
  IF y >= img.height THEN <<>>
  ELSE LET filter == SelectFilter(img.data, img.width, y)
       IN  <<filter>> \o ApplyFilter(img.data, img.width, y, filter) \o FilterRows(img, y + 1)

\* applyFiltering(imageData, options) with options.filter unset ('auto')
ApplyFiltering(img) == FilterRows(img, 0)

\* deflateWithWASM(data, level): returns data
DeflateWithWASM(data) == data

\* the loop of deflateWithJS from index i on (0-based), with its current and count
RECURSIVE RleFrom(_, _, _, _)
RleFrom(data, i, current, count) ==
  IF i >= Len(data) THEN <<count, current>>
  ELSE IF At(data, i) = current /\ count < 255
         THEN RleFrom(data, i + 1, current, count + 1)
         ELSE <<count, current>> \o RleFrom(data, i + 1, At(data, i), 1)

\* deflateWithJS(data, level): current = 0, count = 1, loop from i = 1
DeflateWithJS(data) == RleFrom(data, 1, 0, 1)

\* "wasm" when options.enableWebAssembly is set and WebAssembly exists, else "js"
PngPaths == {"wasm", "js"}

\* deflateCompress(data, options)
DeflateCompress(data, path) ==
  IF path = "wasm" THEN DeflateWithWASM(data) ELSE DeflateWithJS(data)

\* the stream of every image explored, on each path
PngStreamTable ==
  {[img |-> img, path |-> path, stream |-> DeflateCompress(ApplyFiltering(img), path)] :
     img \in PngImages, path \in PngPaths}

InitPngVars ==
  /\ pngImage = [width |-> 0, height |-> 0, data |-> <<>>]
  /\ pngPath = "none"
  /\ pngStream = <<>>

\* PNGCompression.compress(imageData) up to createPNGStructure.  The encoder
\* keeps no state between calls, so one call per behaviour covers them all.
PngCompress(img, path) ==
  /\ pngPath = "none"
  /\ pngImage' = img
  /\ pngPath' = path
  /\ pngStream' = DeflateCompress(ApplyFiltering(img), path)
  /\ UNCHANGED <<jpegVars, scaleVars, stratVars, engineVars, valVars, fileVars, notFn>>

NextPng == \E img \in PngImages, path \in PngPaths : PngCompress(img, path)

(***************************************************************************)
(* JPEGCompression and ProgressiveCompression: quality, quantization,      *)
(* output stream                                                           *)
(***************************************************************************)
\* Qualities and scales are fractions [num, den] with den > 0.
Frac(n, d) == [num |-> n, den |-> d]

FracLess(a, b) == a.num * b.den < b.num * a.den

FracLeq(a, b) == a.num * b.den <= b.num * a.den

\* the qualities of [0, 1] explored
UnitQualities == {Frac(k, QualitySteps) : k \in 0..QualitySteps}

JpegQualities == {Frac(k, JpegQualitySteps) : k \in 0..JpegQualitySteps}

\* options.quality || 0.8
QualityOrDefault(q) == IF q.num = 0 THEN Frac(4, 5) ELSE q

\* JPEGCompression.calculateQualityScale(quality)
CalculateQualityScale(q) ==
  IF FracLeq(Frac(9, 10), q) THEN Frac(2, 4)
  ELSE IF FracLeq(Frac(8, 10), q) THEN Frac(3, 4)
  ELSE IF FracLeq(Frac(7, 10), q) THEN Frac(4, 4)
  ELSE IF FracLeq(Frac(6, 10), q) THEN Frac(5, 4)
  ELSE IF FracLeq(Frac(5, 10), q) THEN Frac(6, 4)
  ELSE Frac(8, 4)

\* scaleFactor of ProgressiveCompression.createDQTTables(quality):
\* quality < 0.5 ? 2.0 - quality * 2 : 1.0 / quality
ProgressiveScaleFactor(q) ==
  IF FracLess(q, Frac(1, 2))
    THEN Frac(2 * q.den - 2 * q.num, q.den)
    ELSE Frac(q.den, q.num)

luminanceQuantTable ==
  << 16, 11, 10, 16, 24, 40, 51, 61,
     12, 12, 14, 19, 26, 58, 60, 55,
     14, 13, 16, 24, 40, 57, 69, 56,
     14, 17, 22, 29, 51, 87, 80, 62,
     18, 22, 37, 56, 68, 109, 103, 77,
     24, 35, 55, 64, 81, 104, 113, 92,
     49, 64, 78, 87, 103, 121, 120, 101,
     72, 92, 95, 98, 112, 100, 103, 99 >>

chrominanceQuantTable ==
  << 17, 18, 24, 47, 99, 99, 99, 99,
     18, 21, 26, 66, 99, 99, 99, 99,
     24, 26, 56, 99, 99, 99, 99, 99,
     47, 66, 99, 99, 99, 99, 99, 99,
     99, 99, 99, 99, 99, 99, 99, 99,
     99, 99, 99, 99, 99, 99, 99, 99,
     99, 99, 99, 99, 99, 99, 99, 99,
     99, 99, 99, 99, 99, 99, 99, 99 >>

\* Math.round(n / d) for d > 0: the nearest integer, halves upwards
RoundDiv(n, d) == (2 * n + d) \div (2 * d)

\* quantizeBlock(dctBlock, channel, qualityScale)
QuantizeBlock(dctBlock, channel, scale) ==
  LET quantTable == IF channel = 0 THEN luminanceQuantTable ELSE chrominanceQuantTable
  IN  [i \in 1..64 |-> RoundDiv(dctBlock[i] * scale.den, quantTable[i] * scale.num)]

\* Math.max(0, Math.min(255, v))
ClampByte(v) == IF v < 0 THEN 0 ELSE IF v > 255 THEN 255 ELSE v

\* The cell of the 8x8 block whose write to pixel (px, py) is the last one in
\* writeBlock: cells beyond the image edge are written onto the edge pixel.
LastCell(px, py, width, height) ==
  (IF py = height - 1 THEN 7 ELSE py) * 8 + (IF px = width - 1 THEN 7 ELSE px)

\* performDCTQuantization for an image of one block: processedData, where the
\* alpha bytes keep the 0 of the fresh Uint8Array
ProcessedData(img, scale) ==
  LET quantized == [c \in 0..2 |-> QuantizeBlock(img.dct[c], c, scale)]
  IN  [i \in 1..(img.width * img.height * 4) |->
        LET pixel   == (i - 1) \div 4
            channel == (i - 1) % 4
            px      == pixel % img.width
            py      == pixel \div img.width
        IN  IF channel = 3 THEN 0
            ELSE ClampByte(quantized[channel][LastCell(px, py, img.width, img.height) + 1] + 128)]

\* A mutant of encodeImageData: a sample of a zero coefficient (byte 128) is
\* followed by a padding byte.
RECURSIVE EncodeSamplesPadded(_, _)
EncodeSamplesPadded(processedData, i) ==
  IF i > Len(processedData) THEN <<>>
  ELSE (IF i % 4 = 0 THEN <<>>
        ELSE IF processedData[i] = 128 THEN <<128, 0>> ELSE <<processedData[i]>>)
       \o EncodeSamplesPadded(processedData, i + 1)

EncodeImageDataPadded(processedData) ==
  <<255, 218, 0, 12, 3, 1, 0, 2, 17, 3, 17, 0, 63, 0>> \o EncodeSamplesPadded(processedData, 1)

\* the loop of encodeImageData from pixel k on: Y, Cb, Cr of each pixel
RECURSIVE EncodeSamples(_, _)
EncodeSamples(processedData, k) ==
  IF 4 * k >= Len(processedData) THEN <<>>
  ELSE <<processedData[4 * k + 1], processedData[4 * k + 2], processedData[4 * k + 3]>>
       \o EncodeSamples(processedData, k + 1)

\* encodeImageData(processedData, width, height)
EncodeImageData(processedData) ==
  <<255, 218, 0, 12, 3, 1, 0, 2, 17, 3, 17, 0, 63, 0>> \o EncodeSamples(processedData, 0)

\* encodeJPEG(processedData, {width, height, quality, progressive})
EncodeJPEG(processedData, width, height) ==
  <<255, 216>>
  \o <<255, 224, 0, 16, 74, 70, 73, 70, 0, 1, 1, 1, 0, 72, 0, 72, 0, 0>>
  \o <<255, 192, 0, 17, 8, (height \div 256) % 256, height % 256,
       (width \div 256) % 256, width % 256, 3>>
  \o <<1, 17, 0, 2, 17, 1, 3, 17, 1>>
  \o EncodeImageData(processedData)
  \o <<255, 217>>

\* the coefficient values explored for the output of applyDCT
JpegCoeffValues == {-300, 40}

\* The images explored, as the output of applyDCT on their single block per
\* channel: the cells that reach the output take any of the values explored,
\* the others are 0.  The floating-point transform itself is left open.
JpegImages ==
  UNION {{[width |-> d[1], height |-> d[2],
           dct |-> [c \in 0..2 |->
                     [i \in 1..64 |->
                        IF \E px \in 0..(d[1] - 1), py \in 0..(d[2] - 1) :
                             LastCell(px, py, d[1], d[2]) + 1 = i
                          THEN LET p == CHOOSE p \in (0..(d[1] - 1)) \X (0..(d[2] - 1)) :
                                          LastCell(p[1], p[2], d[1], d[2]) + 1 = i
                               IN  f[<<c, p[2] * d[1] + p[1]>>]
                          ELSE 0]]] :
          f \in [(0..2) \X (0..(d[1] * d[2] - 1)) -> JpegCoeffValues]} :
         d \in {d \in (1..MaxJpegPixels) \X (1..MaxJpegPixels) : d[1] * d[2] <= MaxJpegPixels}}

NoJpegRun == [quality |-> Frac(0, 1), scale |-> Frac(0, 1), data |-> <<>>]

NoScale == [codec |-> "none", quality |-> Frac(0, 1), scale |-> Frac(0, 1)]

InitJpegVars ==
  /\ jpegImage = [width |-> 0, height |-> 0, dct |-> <<>>]
  /\ jpegPrev = NoJpegRun
  /\ jpegLast = NoJpegRun
  /\ scalePrev = NoScale
  /\ scaleLast = NoScale

\* JPEGCompression.compress(imageData, {quality}) from performDCTQuantization
\* on; the runs of one behaviour are on one image
JpegCompress(img, q) ==
  /\ jpegLast = NoJpegRun \/ img = jpegImage
  /\ jpegImage' = img
  /\ jpegPrev' = jpegLast
  /\ LET scale == CalculateQualityScale(QualityOrDefault(q))
     IN  jpegLast' = [quality |-> q, scale |-> scale,
                      data |-> EncodeJPEG(ProcessedData(img, scale), img.width, img.height)]
  /\ UNCHANGED <<pngVars, scaleVars, stratVars, engineVars, valVars, fileVars, notFn>>

NextJpeg ==
  \/ /\ jpegLast = NoJpegRun
     /\ \E img \in JpegImages, q \in JpegQualities : JpegCompress(img, q)
  \/ /\ jpegLast # NoJpegRun
     /\ \E q \in JpegQualities : JpegCompress(jpegImage, q)

ScaleCodecs == {"jpeg", "progressive"}

\* the scale a codec applies to its quantization tables at a quality
QualityScale(codec, q) ==
  IF codec = "jpeg" THEN CalculateQualityScale(q) ELSE ProgressiveScaleFactor(q)

\* one codec computes its scale for a quality
ComputeScale(codec, q) ==
  /\ scalePrev' = scaleLast
  /\ scaleLast' = [codec |-> codec, quality |-> q, scale |-> QualityScale(codec, q)]
  /\ UNCHANGED <<pngVars, jpegVars, stratVars, engineVars, valVars, fileVars, notFn>>

NextScale == \E codec \in ScaleCodecs, q \in UnitQualities : ComputeScale(codec, q)

(***************************************************************************)
(* Kompreser.determineCompressionStrategy and selectOptimalFormat          *)
(***************************************************************************)
\* the image sizes explored: below and above one megapixel
StrategyImages == {[width |-> 100, height |-> 100], [width |-> 2000, height |-> 1000]}

\* The analysis objects explored.  ImageAnalyzer.analyze sets hasAlpha and
\* never sets hasTransparency, which then reads as undefined; a caller that
\* sets it is covered too.  Exactly one of isPhotograph and isGraphic is set.
Analyses ==
  {[hasAlpha |-> a, hasTransparency |-> t, isPhotograph |-> p, isGraphic |-> ~p,
    hasSharpEdges |-> e] :
     a \in BOOLEAN, t \in {"undefined", "true", "false"}, p \in BOOLEAN, e \in BOOLEAN}

\* the merged options explored
StrategyOptions ==
  [format : {"auto", "jpeg"}, quality : UnitQualities,
   compressionLevel : {"balanced", "maximum", "fast"}, progressive : BOOLEAN]

\* what isFormatSupported answers for webp and avif in the environment
Environments == [webp : BOOLEAN, avif : BOOLEAN]

\* the truth value JavaScript gives a property that may be undefined
Truthy(v) == v = "true"

FracMax(a, b) == IF FracLeq(b, a) THEN a ELSE b

FracMin(a, b) == IF FracLeq(a, b) THEN a ELSE b

\* a - b and a + b
FracSub(a, b) == Frac(a.num * b.den - b.num * a.den, a.den * b.den)

FracAdd(a, b) == Frac(a.num * b.den + b.num * a.den, a.den * b.den)

\* selectOptimalFormat(imageData, analysis, options)
SelectOptimalFormat(analysis, options, env) ==
  IF env.webp /\ Truthy(analysis.hasTransparency) THEN "webp"
  ELSE IF env.avif /\ FracLess(Frac(8, 10), options.quality) THEN "avif"
  ELSE IF analysis.isPhotograph /\ ~Truthy(analysis.hasTransparency) THEN "jpeg"
  ELSE IF analysis.isGraphic \/ analysis.hasSharpEdges THEN "png"
  ELSE "jpeg"

\* the strategy object determineCompressionStrategy returns
StrategyOf(image, analysis, options, env) ==
  [algorithm   |-> "auto",
   format      |-> IF options.format = "auto"
                     THEN SelectOptimalFormat(analysis, options, env)
                     ELSE "undefined",
   quality     |-> IF options.compressionLevel = "maximum"
                     THEN FracMax(Frac(6, 10), FracSub(options.quality, Frac(1, 10)))
                   ELSE IF options.compressionLevel = "fast"
                     THEN FracMin(Frac(9, 10), FracAdd(options.quality, Frac(1, 10)))
                   ELSE options.quality,
   progressive |-> IF image.width * image.height > 1000000 THEN TRUE ELSE options.progressive]

\* A mutant of determineCompressionStrategy: the adjusted quality is written
\* into the options object.
DetermineCompressionStrategyInPlace(self, image, analysis, options, env) ==
  LET strategy == StrategyOf(image, analysis, options, env)
  IN  [strategy |-> strategy, self |-> self, image |-> image, analysis |-> analysis,
       options |-> [options EXCEPT !.quality = strategy.quality]]

\* determineCompressionStrategy(imageData, analysis, options) on a Kompreser
\* whose options are self: the strategy returned, and the instance state and
\* the arguments as the call leaves them
DetermineCompressionStrategy(self, image, analysis, options, env) ==
  [strategy |-> StrategyOf(image, analysis, options, env),
   self |-> self, image |-> image, analysis |-> analysis, options |-> options]

NoStrategyCall == [called |-> FALSE]

\* this.options of a Kompreser built with no options
DefaultOptions ==
  [format |-> "auto", quality |-> Frac(8, 10), compressionLevel |-> "balanced",
   progressive |-> TRUE]

InitStratVars ==
  /\ stratSelf = DefaultOptions
  /\ stratPrev = NoStrategyCall
  /\ stratLast = NoStrategyCall

\* the state a call of determineCompressionStrategy leaves behind
StrategyStep(image, analysis, options, env) ==
  LET after == DetermineCompressionStrategy(stratSelf, image, analysis, options, env)
  IN  /\ stratLast' = [called |-> TRUE, self |-> stratSelf, image |-> image,
                       analysis |-> analysis, options |-> options, env |-> env,
                       after |-> after]
      /\ stratSelf' = after.self
      /\ stratPrev' = stratLast
      /\ UNCHANGED <<pngVars, jpegVars, scaleVars, engineVars, valVars, fileVars, notFn>>

\* the first call of determineCompressionStrategy
StrategyCall(image, analysis, options, env) ==
  /\ ~stratLast.called
  /\ StrategyStep(image, analysis, options, env)

\* the caller calls again with the objects the last call was given, as that
\* call left them, in the same environment
StrategyRepeat ==
  /\ stratLast.called
  /\ StrategyStep(stratLast.after.image, stratLast.after.analysis,
                  stratLast.after.options, stratLast.env)

NextStrategy ==
  \/ /\ ~stratLast.called
     /\ \E image \in StrategyImages, analysis \in Analyses, options \in StrategyOptions,
           env \in Environments : StrategyCall(image, analysis, options, env)
  \/ StrategyRepeat

(***************************************************************************)
(* CompressionEngine.compress on the JPEG path                             *)
(***************************************************************************)
\* options.memoryLimit, the default
MemoryLimit == 536870912

\* an image-data object with no dimensions
NoDimensions == [width |-> 0, height |-> 0, dct |-> <<>>]

EngineImages == JpegImages \cup {NoDimensions}

\* the qualities requested of the engine: inside [0, 1], below it and above it
RequestQualities == {Frac(k, 2) : k \in -1..4}

\* The options explored: the format pinned to 'jpeg' and progressive
\* encoding switched off, so postProcess leaves the codec's output as it is.
EngineOptions ==
  [format : {"jpeg"}, quality : RequestQualities, progressive : {FALSE},
   compressionLevel : {"fast", "balanced", "maximum"}]

\* this.strategies of the engine
Strategies(level) ==
  CASE level = "fast"     -> [quality |-> Frac(7, 10), effort |-> 1, progressive |-> FALSE]
    [] level = "balanced" -> [quality |-> Frac(8, 10), effort |-> 4, progressive |-> TRUE]
    [] level = "maximum"  -> [quality |-> Frac(9, 10), effort |-> 9, progressive |-> TRUE]

\* selectStrategy(options): the preset of the level, overridden by the options
SelectStrategy(options) ==
  [name |-> options.compressionLevel,
   effort |-> Strategies(options.compressionLevel).effort,
   quality |-> options.quality,
   progressive |-> options.progressive,
   format |-> options.format]

\* whether CompressionEngine.validateInput(imageData) throws
EngineValidateThrows(imageData) ==
  \/ imageData.width = 0 \/ imageData.height = 0
  \/ imageData.width > 32767 \/ imageData.height > 32767
  \/ imageData.width < 1 \/ imageData.height < 1

\* whether checkMemoryRequirements(imageData) throws
MemoryThrows(imageData) == imageData.width * imageData.height * 4 * 3 > MemoryLimit

\* JPEGCompression.compress(imageData, strategy), from performDCTQuantization on
JpegCodec(imageData, strategy) ==
  LET scale == CalculateQualityScale(QualityOrDefault(strategy.quality))
  IN  [data |-> EncodeJPEG(ProcessedData(imageData, scale), imageData.width, imageData.height),
       quality |-> QualityOrDefault(strategy.quality)]

\* CompressionEngine.compress(imageData, options): what the call gives, the
\* result object or the CompressionError its catch block throws
EngineCompressResult(imageData, options) ==
  IF EngineValidateThrows(imageData) \/ MemoryThrows(imageData)
    THEN [status |-> "CompressionError", data |-> <<>>, strategy |-> "-"]
    ELSE LET strategy == SelectStrategy(options)
             compressedData == JpegCodec(imageData, strategy)
         IN  [status |-> "ok", data |-> compressedData.data, strategy |-> strategy.name]

NoEngineCall == [called |-> FALSE]

\* processingTimes keeps the last 100 durations
MaxProcessingTimes == 100

\* what timer.end() gives, in milliseconds
Durations == {0, 7}

\* imageData.data?.length || imageData.size of an RGBA image
InputBytes(imageData) == imageData.width * imageData.height * 4

\* updateCompressionStats(original, compressed, duration)
UpdateCompressionStats(stats, original, compressed, duration) ==
  LET before == stats.totalBytesBefore + InputBytes(original)
      after  == stats.totalBytesAfter + Len(compressed.data)
      times  == Append(stats.processingTimes, duration)
  IN  [totalProcessed |-> stats.totalProcessed + 1,
       totalBytesBefore |-> before,
       totalBytesAfter |-> after,
       averageCompressionRatio |-> Frac(before - after, before),
       processingTimes |-> IF Len(times) > MaxProcessingTimes THEN Tail(times) ELSE times]

\* the statistics updated ahead of the codec, whether or not the call then throws
StatsCountedAhead(stats, imageData, result, duration) ==
  UpdateCompressionStats(stats, imageData, result, duration)

\* this.compressionStats after one compress(): updateCompressionStats runs
\* after postProcess, so only in a call that got that far
StatsAfterCompress(stats, imageData, result, duration) ==
  IF result.status = "ok"
    THEN UpdateCompressionStats(stats, imageData, result, duration)
    ELSE stats

InitEngineVars ==
  /\ engineLast = NoEngineCall
  /\ compressionStats = [totalProcessed |-> 0, totalBytesBefore |-> 0, totalBytesAfter |-> 0,
                         averageCompressionRatio |-> Frac(0, 1), processingTimes |-> <<>>]
  /\ engineReturns = 0
  /\ engineThrows = 0

\* one call of CompressionEngine.compress
EngineCompress(imageData, options, duration) ==
  LET result == EngineCompressResult(imageData, options)
  IN  /\ engineLast' = [called |-> TRUE, imageData |-> imageData, options |-> options,
                        result |-> result]
      /\ compressionStats' = StatsAfterCompress(compressionStats, imageData, result, duration)
      /\ engineReturns' = engineReturns + (IF result.status = "ok" THEN 1 ELSE 0)
      /\ engineThrows' = engineThrows + (IF result.status = "ok" THEN 0 ELSE 1)
      /\ UNCHANGED <<pngVars, jpegVars, scaleVars, stratVars, valVars, fileVars, notFn>>

NextEngine ==
  /\ ~engineLast.called
  /\ \E imageData \in EngineImages, options \in EngineOptions, duration \in Durations :
        EngineCompress(imageData, options, duration)

\* the images and options of repeated calls on one engine
StatsImages ==
  {NoDimensions} \cup {img \in JpegImages : \A c \in 0..2 : img.dct[c] = img.dct[0]}

StatsOptions == {o \in EngineOptions : o.compressionLevel = "balanced" /\ o.quality.num \in {1, 3}}

\* a run of compress() calls on one engine
NextEngineStats ==
  /\ engineReturns + engineThrows < MaxEngineCalls
  /\ \E imageData \in StatsImages, options \in StatsOptions, duration \in Durations :
        EngineCompress(imageData, options, duration)

(***************************************************************************)
(* FileValidator.validateInput on image-data objects                       *)
(***************************************************************************)
\* the sample values explored
SampleValues == {0, 77, 255}

\* the buffers explored
Buffers == UNION {[1..n -> SampleValues] : n \in 0..MaxDataLen}

\* The plain objects {data, width, height} explored; the buffer need not
\* have width * height * 4 entries.
ImageDataInputs == [data : Buffers, width : 0..MaxDim, height : 0..MaxDim]

\* data[i] === v for a 0-based index; data[i] is undefined past the end
SampleIs(data, i, v) == i < Len(data) /\ data[i + 1] = v

\* data[i] & 1, which is 0 for undefined
Lsb(data, i) == IF i < Len(data) THEN data[i + 1] % 2 ELSE 0

\* the 0-based indices 0, 4, 8, ... below the length
PixelStarts(data) == {i \in 0..(Len(data) - 1) : i % 4 = 0}

\* checkAlphaChannel(data)
CheckAlphaChannel(data) ==
  \E i \in 0..(Len(data) - 1) : i % 4 = 3 /\ data[i + 1] < 255

\* the pixels performAdvancedValidation counts as extreme
ExtremeColors(data) ==
  Cardinality({i \in PixelStarts(data) :
     \/ SampleIs(data, i, 0) /\ SampleIs(data, i + 1, 0) /\ SampleIs(data, i + 2, 0)
     \/ SampleIs(data, i, 255) /\ SampleIs(data, i + 1, 255) /\ SampleIs(data, i + 2, 255)})

\* the pixels checkSteganographyPatterns counts as suspicious
SuspiciousPatterns(data) ==
  Cardinality({i \in PixelStarts(data) :
     LET lsbPattern == Lsb(data, i) + 2 * Lsb(data, i + 1) + 4 * Lsb(data, i + 2)
     IN  lsbPattern = 7 \/ lsbPattern = 0})

\* the errors validateImageData pushes
ImageDataErrors(imageData) ==
  (IF imageData.width <= 0 \/ imageData.height <= 0 THEN {"not_positive"} ELSE {})
  \cup (IF imageData.width > 32767 \/ imageData.height > 32767 THEN {"too_large"} ELSE {})
  \cup (IF Len(imageData.data) = 0 THEN {"empty"} ELSE {})

\* the warnings validateImageData and performAdvancedValidation push
ImageDataWarnings(imageData) ==
  (IF Len(imageData.data) # imageData.width * imageData.height * 4
     THEN {"size_mismatch"} ELSE {})
  \cup (IF \E i \in 1..Len(imageData.data) : imageData.data[i] < 0 \/ imageData.data[i] > 255
          THEN {"corrupted"} ELSE {})
  \cup (IF 10 * ExtremeColors(imageData.data) > 9 * imageData.width * imageData.height
          THEN {"extreme_colors"} ELSE {})
  \cup (IF 5 * SuspiciousPatterns(imageData.data) > Len(imageData.data)
          THEN {"lsb_patterns"} ELSE {})

\* FileValidator.validateInput(input) for a plain object: the branch
\* `input.data && input.width && input.height` leads to validateImageData,
\* anything else is an unsupported input type
FileValidateInput(input) ==
  LET known == input.width # 0 /\ input.height # 0
      errors == IF known THEN ImageDataErrors(input) ELSE {"unsupported"}
  IN  [valid |-> errors = {},
       errors |-> errors,
       warnings |-> IF known THEN ImageDataWarnings(input) ELSE {},
       hasAlpha |-> IF known THEN CheckAlphaChannel(input.data) ELSE FALSE]

NoValidation == [valid |-> FALSE, errors |-> {}, warnings |-> {}, hasAlpha |-> FALSE]

InitValVars ==
  /\ valInput = [data |-> <<>>, width |-> 0, height |-> 0]
  /\ valValidation = NoValidation
  /\ valStage = "idle"

\* compress(input) with the default options, up to analyzer.analyze: an input
\* that is not valid is thrown out as a ValidationError, a valid one goes
\* through processInput unchanged and is analysed
CompressImageData(input) ==
  /\ valStage = "idle"
  /\ valInput' = input
  /\ valValidation' = FileValidateInput(input)
  /\ valStage' = IF FileValidateInput(input).valid THEN "analyzed" ELSE "rejected"
  /\ UNCHANGED <<pngVars, jpegVars, scaleVars, stratVars, engineVars, fileVars, notFn>>

NextValidator ==
  /\ valStage = "idle"
  /\ \E input \in ImageDataInputs : CompressImageData(input)

(***************************************************************************)
(* FileValidator.validateFile for the validator a Kompreser builds         *)
(***************************************************************************)
\* maxFileSize of the Kompreser defaults
MaxFileSize == 52428800

\* allowedFormats of the Kompreser defaults
KompreserAllowedFormats == {"jpeg", "png", "webp", "avif", "svg", "gif", "bmp", "tiff"}

\* the list FileValidator falls back to when options.allowedFormats is not set
ValidatorAllowedFormats ==
  {"image/jpeg", "image/jpg", "image/png", "image/webp", "image/avif",
   "image/svg+xml", "image/gif", "image/bmp", "image/tiff"}

\* the list FileValidator falls back to when options.allowedExtensions is not set
ValidatorAllowedExtensions == {"jpg", "jpeg", "png", "webp", "avif", "svg", "gif", "bmp", "tiff"}

\* The options a Kompreser hands to `new FileValidator(this.options)`: the
\* defaults, and the defaults with allowedFormats overridden by MIME types.
KompreserOptions ==
  {[name |-> "default", allowedFormats |-> KompreserAllowedFormats],
   [name |-> "mime", allowedFormats |-> ValidatorAllowedFormats]}

\* this.allowedFormats of the validator: options.allowedFormats || the fallback.
\* Every list explored is an array, which is truthy.
AllowedFormats(options) == options.allowedFormats

\* the input formats the README lists as supported, as MIME types
SupportedInputTypes ==
  {"image/jpeg", "image/png", "image/webp", "image/avif", "image/gif", "image/bmp",
   "image/tiff"}

\* The file names explored, with the extension `name.split('.').pop()` gives
\* and whether one of the suspicious-name patterns of performSecurityChecks
\* matches.
FileNames ==
  {[name |-> "photo.jpg", extension |-> "jpg", suspicious |-> FALSE],
   [name |-> "photo.dat", extension |-> "dat", suspicious |-> FALSE],
   [name |-> "photo.php", extension |-> "php", suspicious |-> TRUE],
   [name |-> "script.png", extension |-> "png", suspicious |-> TRUE]}

\* the first bytes of the files explored: JPEG, PNG, PDF, and an empty file
FileHeads == {<<255, 216, 255>>, <<137, 80, 78, 71>>, <<37, 80, 68, 70>>, <<>>}

\* the signatures detectFileSignature knows, in the order it tries them
Signatures ==
  <<[format |-> "image/jpeg", signature |-> <<255, 216>>],
    [format |-> "image/png",  signature |-> <<137, 80, 78, 71>>],
    [format |-> "image/gif",  signature |-> <<71, 73, 70>>],
    [format |-> "image/webp", signature |-> <<82, 73, 70, 70>>],
    [format |-> "image/bmp",  signature |-> <<66, 77>>],
    [format |-> "image/tiff", signature |-> <<73, 73, 42, 0>>]>>

\* compareSignatures(data, signature)
CompareSignatures(data, signature) ==
  /\ Len(data) >= Len(signature)
  /\ \A i \in 1..Len(signature) : data[i] = signature[i]

\* detectFileSignature(data): the first format whose signature matches, or null
DetectFileSignature(data) ==
  LET hits == {k \in 1..Len(Signatures) : CompareSignatures(data, Signatures[k].signature)}
  IN  IF hits = {} THEN "null" ELSE Signatures[MinOf(hits)].format

\* whether a detected signature starts with 'image/'
IsImageSignature(sig) == sig \in {Signatures[k].format : k \in 1..Len(Signatures)}

\* the files explored; decodes tells whether createImageBitmap(file) succeeds
Files ==
  [type : SupportedInputTypes \cup {"image/svg+xml", "text/plain"},
   size : {1024, MaxFileSize, MaxFileSize + 1},
   name : FileNames, head : FileHeads, decodes : BOOLEAN]

\* the image data extractImageDataFromFile reads back from a decoded bitmap
DecodedImageData == [data |-> <<0, 77, 255, 255>>, width |-> 1, height |-> 1]

\* the errors validateFile pushes for a validator built with the options
FileErrors(options, file) ==
  (IF file.size > MaxFileSize THEN {"too_large"} ELSE {})
  \cup (IF file.type \notin AllowedFormats(options) THEN {"not_supported"} ELSE {})
  \cup (IF file.name.suspicious THEN {"dangerous_name"} ELSE {})
  \cup (IF DetectFileSignature(file.head) # "null"
           /\ ~IsImageSignature(DetectFileSignature(file.head))
          THEN {"non_image_signature"} ELSE {})
  \cup (IF file.decodes THEN ImageDataErrors(DecodedImageData) ELSE {})

\* the warnings validateFile pushes; the one checkMetadataForScripts adds for
\* script-like text in the file is left out, the file text is not explored
FileWarnings(file) ==
  (IF file.name.extension \notin ValidatorAllowedExtensions THEN {"extension"} ELSE {})
  \cup (IF file.decodes THEN ImageDataWarnings(DecodedImageData) ELSE {})

\* validateInput(file) for `input instanceof File`
ValidateFile(options, file) ==
  [valid |-> FileErrors(options, file) = {},
   errors |-> FileErrors(options, file),
   warnings |-> FileWarnings(file),
   format |-> file.type,
   size |-> file.size]

NoFileCall == [called |-> FALSE]

InitFileVars == fileLast = NoFileCall

\* new Kompreser(options).validator.validateInput(file)
ValidateFileCall(options, file) ==
  /\ ~fileLast.called
  /\ fileLast' = [called |-> TRUE, options |-> options, file |-> file,
                  validation |-> ValidateFile(options, file)]
  /\ UNCHANGED <<pngVars, jpegVars, scaleVars, stratVars, engineVars, valVars, notFn>>

NextFile ==
  /\ ~fileLast.called
  /\ \E options \in KompreserOptions, file \in Files : ValidateFileCall(options, file)

(***************************************************************************)
(* Specifications                                                          *)
(***************************************************************************)
(***************************************************************************)
(* PNGCompression.medianCut                                                *)
(***************************************************************************)

\* the channel values of the pixels handed to medianCut
CutValues == {0, 100, 200}

\* the [r, g, b] pixels
CutPixels == CutValues \X CutValues \X CutValues

\* the lists of 1..MaxCutPixels pixels
CutPixelLists == UNION {[1..n -> CutPixels] : n \in 1..MaxCutPixels}

\* the smallest and the largest value of a channel, from the starting values
\* 255 and 0 of the loop
ChannelMin(pixels, ch) ==
  CHOOSE v \in {255} \cup {pixels[i][ch] : i \in 1..Len(pixels)} :
    \A i \in 1..Len(pixels) : v <= pixels[i][ch]

ChannelMax(pixels, ch) ==
  CHOOSE v \in {0} \cup {pixels[i][ch] : i \in 1..Len(pixels)} :
    \A i \in 1..Len(pixels) : v >= pixels[i][ch]

\* the channel with the largest range: red on a tie, then green (1-based)
WidestChannel(pixels) ==
  LET rangeR == ChannelMax(pixels, 1) - ChannelMin(pixels, 1)
      rangeG == ChannelMax(pixels, 2) - ChannelMin(pixels, 2)
      rangeB == ChannelMax(pixels, 3) - ChannelMin(pixels, 3)
  IN  IF rangeR >= rangeG /\ rangeR >= rangeB THEN 1
      ELSE IF rangeG >= rangeB THEN 2 ELSE 3

\* pixels.sort((a, b) => a[channel] - b[channel]): a stable sort
RECURSIVE SortByChannel(_, _)
SortByChannel(pixels, ch) ==
  IF Len(pixels) <= 1 THEN pixels
  ELSE LET n == Len(pixels)
           front == SortByChannel(SubSeq(pixels, 1, n - 1), ch)
           p == pixels[n]
           before == SelectSeq(front, LAMBDA q : q[ch] <= p[ch])
           after == SelectSeq(front, LAMBDA q : q[ch] > p[ch])
       IN  before \o <<p>> \o after

CutOverflow == [status |-> "RangeError", colors |-> <<>>]

\* medianCut(pixels, maxColors).  A call with one pixel and maxColors = 0
\* passes the guard, cuts at median 0 and calls itself on the right half,
\* which is the same one pixel, with Math.ceil(0 / 2) = 0: the recursion
\* repeats until the call stack is exhausted (RangeError).
RECURSIVE MedianCut(_, _)
MedianCut(pixels, maxColors) ==
  IF Len(pixels) <= maxColors THEN [status |-> "ok", colors |-> pixels]
  ELSE IF Len(pixels) = 1 THEN CutOverflow
  ELSE LET sorted == SortByChannel(pixels, WidestChannel(pixels))
           median == Len(sorted) \div 2
           left == SubSeq(sorted, 1, median)
           right == SubSeq(sorted, median + 1, Len(sorted))
           leftColors == MedianCut(left, maxColors \div 2)
           rightColors == MedianCut(right, (maxColors + 1) \div 2)
       IN  IF leftColors.status # "ok" \/ rightColors.status # "ok" THEN CutOverflow
           ELSE [status |-> "ok", colors |-> leftColors.colors \o rightColors.colors]

NoCutCall == [called |-> FALSE]

InitCutVars == cutLast = NoCutCall

\* one call of medianCut
MedianCutCall(pixels, maxColors) ==
  /\ cutLast' = [called |-> TRUE, pixels |-> pixels, maxColors |-> maxColors,
                 result |-> MedianCut(pixels, maxColors)]
  /\ UNCHANGED notCut

NextMedianCut ==
  /\ ~cutLast.called
  /\ \E pixels \in CutPixelLists, maxColors \in 1..MaxCutColors :
        MedianCutCall(pixels, maxColors)

(***************************************************************************)
(* ImageAnalyzer.analyzeContent: the classification by local variance.     *)
(* Edge density, noise level and blur score are computed beside it and do  *)
(* not feed the classification; they are left out.                         *)
(***************************************************************************)

\* the grey levels of the pixels explored: r = g = b = level, alpha 255
GreyLevels == {0, 255}

\* the images explored: width * height <= MaxContentPixels, one grey level
\* per pixel, row by row
ContentImages ==
  UNION {{[width |-> d[1], height |-> d[2], grey |-> g] : g \in [1..(d[1] * d[2]) -> GreyLevels]} :
         d \in {e \in (1..MaxContentPixels) \X (1..MaxContentPixels) : e[1] * e[2] <= MaxContentPixels}}

\* 0.299 r + 0.587 g + 0.114 b of the pixel at (x, y) clamped into the image;
\* for a grey pixel the weights add up to the level itself
Luminance(img, x, y) ==
  LET pixelX == IF x < 0 THEN 0 ELSE IF x > img.width - 1 THEN img.width - 1 ELSE x
      pixelY == IF y < 0 THEN 0 ELSE IF y > img.height - 1 THEN img.height - 1 ELSE y
  IN  img.grey[pixelY * img.width + pixelX + 1]

\* calculateLocalVariance(data, width, height, x, y) times 81: with the nine
\* values v, mean = sum(v) / 9 and variance = sum((v - mean)^2) / 9
\* = (9 sum(v^2) - sum(v)^2) / 81
LocalVariance81(img, x, y) ==
  LET v == [k \in 0..8 |-> Luminance(img, x + (k % 3) - 1, y + (k \div 3) - 1)]
      sum == v[0] + v[1] + v[2] + v[3] + v[4] + v[5] + v[6] + v[7] + v[8]
      squares == v[0] * v[0] + v[1] * v[1] + v[2] * v[2] + v[3] * v[3] + v[4] * v[4]
                 + v[5] * v[5] + v[6] * v[6] + v[7] * v[7] + v[8] * v[8]
  IN  9 * squares - sum * sum

BlockSize == 8

\* the pixels the loops of analyzeBlock visit from (startX, startY)
BlockCells(img, startX, startY) ==
  {c \in (startX..(startX + BlockSize - 1)) \X (startY..(startY + BlockSize - 1)) :
     c[1] < img.width - 1 /\ c[2] < img.height - 1}

RECURSIVE SumVariance81(_, _)
SumVariance81(img, cells) ==
  IF cells = {} THEN 0
  ELSE LET c == CHOOSE c \in cells : TRUE
       IN  LocalVariance81(img, c[1], c[2]) + SumVariance81(img, cells \ {c})

\* analyzeBlock(data, width, height, startX, startY, blockSize): the object
\* it returns, with totalVariance in units of 1/81
AnalyzeBlock(img, startX, startY) ==
  [totalVariance |-> SumVariance81(img, BlockCells(img, startX, startY))]

\* the block starts of the two loops of analyzeContent
BlockStarts(img) ==
  {b \in (1..img.width) \X (1..img.height) :
     /\ b[1] % BlockSize = 1 /\ b[1] < img.width - 1
     /\ b[2] % BlockSize = 1 /\ b[2] < img.height - 1}

\* object.name read for a sum: a property the object lacks is undefined,
\* and adding undefined to a number gives NaN
Field(object, name) ==
  IF name \in DOMAIN object THEN [nan |-> FALSE, num |-> object[name]]
  ELSE [nan |-> TRUE, num |-> 0]

RECURSIVE SumField(_, _, _)
SumField(img, blocks, name) ==
  IF blocks = {} THEN [nan |-> FALSE, num |-> 0]
  ELSE LET b == CHOOSE b \in blocks : TRUE
           here == Field(AnalyzeBlock(img, b[1], b[2]), name)
           rest == SumField(img, blocks \ {b}, name)
       IN  [nan |-> here.nan \/ rest.nan, num |-> here.num + rest.num]

\* analyzeContent(imageData): totalVariance adds up blockAnalysis.variance;
\* complexity = totalVariance / (width * height); NaN > 1000 is false
AnalyzeContent(img) ==
  LET totalVariance == SumField(img, BlockStarts(img), "variance")
      complexity == [nan |-> totalVariance.nan,
                     value |-> Frac(totalVariance.num, 81 * img.width * img.height)]
      photograph == ~complexity.nan /\ FracLess(Frac(1000, 1), complexity.value)
  IN  [complexity |-> complexity, isPhotograph |-> photograph, isGraphic |-> ~photograph]

\* the local variance summed over the analysed pixels, divided by the pixel count
VarianceComplexity(img) ==
  Frac(SumField(img, BlockStarts(img), "totalVariance").num, 81 * img.width * img.height)

NoContentCall == [called |-> FALSE]

InitContentVars == contentLast = NoContentCall

\* one call of analyzeContent
AnalyzeContentCall(img) ==
  /\ contentLast' = [called |-> TRUE, image |-> img, analysis |-> AnalyzeContent(img)]
  /\ UNCHANGED notContent

NextContent ==
  /\ ~contentLast.called
  /\ \E img \in ContentImages : AnalyzeContentCall(img)

InitFnVars ==
  /\ InitPngVars /\ InitJpegVars /\ InitStratVars /\ InitEngineVars /\ InitValVars
  /\ InitFileVars /\ InitCutVars /\ InitContentVars

InitAll == InitPoolVars /\ InitCacheVars /\ InitCompVars /\ InitBatchVars /\ InitFnVars

SpecPool == InitAll /\ [][NextPool]_vars

\* a live worker answers the message in its inbox or raises an error over it
WorkerAnswers(w) ==
  \/ \E o \in {"resolved", "rejected"} : WorkerReply(w, o)
  \/ /\ w \in 1..workerId
     /\ workerInfo[w].inbox # 0
     /\ WorkerError(w)

\* The scheduling the pool can count on: initialize() is called, the event
\* loop runs every pending continuation, and every worker answers or raises
\* an error for every message it receives.  Calls of process(),
\* restartWorker() and terminate() are the client's choice.
PoolFairness ==
  /\ WF_vars(Initialize)
  /\ WF_vars(InitializeResume)
  /\ WF_vars(RestartResume)
  /\ \A w \in 1..MaxWorkerIds : WF_vars(WorkerAnswers(w))

SpecPoolFair == InitAll /\ [][NextPool]_vars /\ PoolFairness

\* the pool while nobody calls terminate() and no worker raises an error
NextRestart ==
  \/ Initialize
  \/ InitializeResume
  \/ Process
  \/ \E w \in 1..MaxWorkerIds, o \in {"resolved", "rejected"} : WorkerReply(w, o)
  \/ \E id \in 1..MaxWorkerIds : RestartWorker(id)
  \/ RestartResume

SpecRestart == InitAll /\ [][NextRestart]_vars

\* The scheduling compress() can count on: every operation the try block
\* awaits settles, handleError returns, and the timer of the backoff fires.
\* Whether and when a caller invokes compress() is the caller's choice.
CompressFairness ==
  \A c \in Calls :
    /\ WF_vars(\E o \in AttemptOutcomes : Attempt(c, o))
    /\ WF_vars(Decide(c))
    /\ WF_vars(Wake(c))

\* the inputs of the calls whose retries are followed: one that fails
\* validation and one image-data object
RetryInputs == {[kind |-> "null", buf |-> 0], [kind |-> "imagedata", buf |-> 1]}

\* compress() called with the format pinned to 'jpeg'
NextRetry ==
  \/ \E c \in Calls, i \in RetryInputs : Invoke(c, i, "jpeg")
  \/ \E c \in Calls, o \in AttemptOutcomes : Attempt(c, o)
  \/ \E c \in Calls : Decide(c)
  \/ \E c \in Calls : Wake(c)

SpecRetry == InitAll /\ [][NextRetry]_vars

SpecRetryFair == InitAll /\ [][NextRetry]_vars /\ CompressFairness

SpecCache == InitAll /\ [][NextCache]_vars

SpecCompress == InitAll /\ [][NextCompress]_vars

SpecBatch == InitAll /\ [][NextBatch]_vars

SpecPng == InitAll /\ [][NextPng]_vars

SpecJpeg == InitAll /\ [][NextJpeg]_vars

SpecScale == InitAll /\ [][NextScale]_vars

SpecStrategy == InitAll /\ [][NextStrategy]_vars

SpecEngine == InitAll /\ [][NextEngine]_vars

SpecEngineStats == InitAll /\ [][NextEngineStats]_vars

SpecMedianCut == InitAll /\ [][NextMedianCut]_vars

SpecContent == InitAll /\ [][NextContent]_vars

SpecValidator == InitAll /\ [][NextValidator]_vars

SpecFile == InitAll /\ [][NextFile]_vars


(***************************************************************************)
(* Properties                                                              *)
(***************************************************************************)

\* C2: the number of tasks dispatched to a worker and not yet settled (the
\* size of activeTasks) never exceeds maxWorkers.
C2_ActiveTasksWithinMaxWorkers == Cardinality(activeTasks) <= MaxWorkers

\* C3: tasks are dispatched in submission order: a task that becomes active
\* in a step was submitted before every task waiting in taskQueue, before
\* and after the step.
C3_DispatchInSubmissionOrder ==
  [][\A t \in activeTasks' \ activeTasks :
       /\ \A q \in Range(taskQueue) : t <= q
       /\ \A q \in Range(taskQueue') : t < q]_vars

\* a task was dispatched from the queue after an earlier one settled, while
\* a later task still waits
C3_Witness ==
  /\ taskQueue # <<>>
  /\ \E t \in activeTasks : \E u \in 1..taskSeq : u < t /\ settled[u] # "pending"

\* C1: with caching enabled, a compress() call made after another call on
\* the same pixel buffer and options resolved returns the same result and
\* runs no compression algorithm.
C1_SecondCallServedFromCache ==
  \A c \in Calls : \A d \in priorResolved[c] :
    (/\ EnableCaching
     /\ callPc[c] = "resolved"
     /\ callResult[d].kind = "output"
     /\ callInput[c] = callInput[d]
     /\ callOpts[c] = callOpts[d])
    => (callResult[c] = callResult[d] /\ ~codecCalls[c])

\* C4: the returned batch has one slot per input, and slot i holds the
\* outcome of the compress call on inputs[i].
C4_BatchSlotsFollowInputs ==
  batchPc = "returned" =>
    /\ Len(batchResults) = Len(batchInputs)
    /\ \A i \in 1..Len(batchInputs) :
         /\ batchResults[i].filled
         /\ batchResults[i].input = batchInputs[i]
         /\ batchResults[i].success = (callPc[i] = "resolved")
         /\ batchResults[i].result = callResult[i]

\* a batch of two different inputs returned after the second job finished first
C4_Witness ==
  /\ batchPc = "returned"
  /\ Len(batchInputs) = 2
  /\ batchInputs[1] # batchInputs[2]
  /\ batchResults[2].order = 1

\* C5: a compress() call re-enters compress at most maxRetries times.
C5_AtMostMaxRetries == \A c \in Calls : retries[c] <= MaxRetries

\* C6: a call rejected after a compression algorithm failed has made exactly
\* one attempt with the fallback algorithm.
C6_OneFallbackAttempt ==
  \A c \in Calls :
    (/\ callPc[c] = "rejected"
     /\ callError[c].code = "COMPRESSION_ERROR"
     /\ callError[c].cause \in DOMAIN FallbackAlgorithms)
    => fallbackAttempts[c] = 1

\* C7: a call is not running again after an attempt of it failed with a
\* CompressionError.
C7_NoRerunAfterCompressionError ==
  \A c \in Calls :
    (callPc[c] = "running" /\ retries[c] > 0) => callError[c].code # "COMPRESSION_ERROR"

\* C8: a call on an input that fails validation never runs the processor or
\* an algorithm, is never retried, never resolves, and when it settles it is
\* rejected with the ValidationError.
C8_InvalidInputRejectedWithoutWork ==
  \A c \in Calls :
    (callPc[c] # "idle" /\ ~ValidateInput(callInput[c])) =>
      /\ ~processorCalls[c]
      /\ ~codecCalls[c]
      /\ retries[c] = 0
      /\ callPc[c] \in {"running", "recovering", "rejected"}
      /\ callPc[c] \in {"recovering", "rejected"} => callError[c].code = "VALIDATION_ERROR"

\* calls on null, on the string and on the unsupported value have all been
\* rejected, the last one while the handler had already counted other errors
C8_Witness ==
  /\ \E c \in Calls : callPc[c] = "rejected" /\ callInput[c].kind = "null"
  /\ \E c \in Calls : callPc[c] = "rejected" /\ callInput[c].kind \in {"string", "other"}

\* C9: the keys deleted by the eviction loop of set() were all used less
\* recently than every entry that remains in the cache.
C9_EvictsLeastRecentlyUsed ==
  \A e \in lastOp.evicted : \A r \in Keys(cache) :
    PosIn(recency, e) < PosIn(recency, r)

\* a set() evicted an entry and kept another one, whose recency a get() hit
\* or a later set() had refreshed
C9_Witness ==
  /\ lastOp.op = "set"
  /\ lastOp.evicted # {}
  /\ \E r \in Keys(cache) : r # lastOp.key

\* C10: the aggregate size of the stored entries never exceeds maxSize.
C10_AggregateSizeWithinMaxSize == SumSizes(cache) <= CacheMaxSize

\* the cache is full to the byte after a set() that had to evict
C10_Witness ==
  /\ lastOp.op = "set"
  /\ lastOp.evicted # {}
  /\ SumSizes(cache) = CacheMaxSize

\* C11: the stream of the last PNG encode determines its pixel buffer: no
\* other buffer of the same dimensions yields the same stream on that path.
C11_StreamDeterminesBuffer ==
  pngPath # "none" =>
    \A other \in PngStreamTable :
      (/\ other.path = pngPath
       /\ other.img.width = pngImage.width
       /\ other.img.height = pngImage.height
       /\ other.stream = pngStream)
      => other.img = pngImage

\* C12: of two JPEG runs on one pixel buffer, the run at the lower quality
\* gives an output that is not longer.
C12_LowerQualityNotLonger ==
  (jpegPrev # NoJpegRun /\ FracLess(jpegPrev.quality, jpegLast.quality))
    => Len(jpegPrev.data) <= Len(jpegLast.data)

\* two runs at increasing quality whose scales and output bytes differ
C12_Witness ==
  /\ jpegPrev # NoJpegRun
  /\ FracLess(jpegPrev.quality, jpegLast.quality)
  /\ jpegPrev.scale # jpegLast.scale
  /\ jpegPrev.data # jpegLast.data

\* C13: of two scale computations of one codec, the one at the higher quality
\* gives a scale that is not larger.
C13_ScaleMonotone ==
  (/\ scalePrev.codec # "none"
   /\ scalePrev.codec = scaleLast.codec
   /\ FracLess(scalePrev.quality, scaleLast.quality))
  => FracLeq(scaleLast.scale, scalePrev.scale)

C16_QualityNudgedTheRightWay ==
  stratLast.called =>
    /\ stratLast.options.compressionLevel = "maximum"
         => FracLeq(stratLast.after.strategy.quality, stratLast.options.quality)
    /\ stratLast.options.compressionLevel = "fast"
         => FracLeq(stratLast.options.quality, stratLast.after.strategy.quality)

\* C17: a compression request whose quality lies outside [0, 1] fails with a
\* CompressionError and produces no output.
C17_QualityOutOfRangeFails ==
  (/\ engineLast.called
   /\ \/ FracLess(engineLast.options.quality, Frac(0, 1))
      \/ FracLess(Frac(1, 1), engineLast.options.quality))
  => /\ engineLast.result.status = "CompressionError"
     /\ engineLast.result.data = <<>>

\* C18: an image-data input whose data length differs from width x height x 4
\* is reported as not valid, and compress() does not analyse it.
C18_LengthMismatchRejected ==
  (/\ valStage # "idle"
   /\ Len(valInput.data) # valInput.width * valInput.height * 4)
  => /\ ~valValidation.valid
     /\ valStage # "analyzed"

\* C19: the validator of a Kompreser built with the default options records
\* no 'is not supported' error for a File of a supported MIME type, of size
\* at most maxFileSize, whose name and signature raise no security error.
C19_SupportedTypeAccepted ==
  (/\ fileLast.called
   /\ fileLast.options.name = "default"
   /\ fileLast.file.type \in SupportedInputTypes
   /\ fileLast.file.size <= MaxFileSize
   /\ "dangerous_name" \notin fileLast.validation.errors
   /\ "non_image_signature" \notin fileLast.validation.errors)
  => "not_supported" \notin fileLast.validation.errors

\* C20: every task submitted with process() is eventually resolved or
\* rejected, when every worker answers or raises an error for every message
\* it receives.
C20_EveryTaskSettled ==
  \A t \in 1..MaxTasks :
    (t <= taskSeq /\ settled[t] = "pending") ~> (t <= taskSeq /\ settled[t] # "pending")

\* C21: whenever no handler is running, it is never the case that taskQueue
\* is non-empty while some worker of the pool is idle.
C21_WorkConserving ==
  microtasks = <<>> =>
    ~(/\ taskQueue # <<>>
      /\ \E i \in 1..Len(workers) : ~workerInfo[workers[i]].busy)

\* C22: once every restartWorker call has completed, no worker with a
\* restarted id remains in the pool, no worker other than the restarted ones
\* has been removed, and the pool holds as many workers as there are live ones.
C22_RestartsReplaceExactly ==
  (\A k \in 1..Len(microtasks) : microtasks[k].kind # "restart") =>
    /\ \A i \in 1..Len(workers) : ~workerInfo[workers[i]].terminated
    /\ \A id \in 1..workerId : ~workerInfo[id].terminated => id \in Range(workers)
    /\ Len(workers) = Cardinality({id \in 1..workerId : ~workerInfo[id].terminated})

\* C23: a set() whose value is larger than maxSize, which stores nothing,
\* leaves every entry cached under another key in place.
C23_OversizeSetEvictsNothing ==
  (lastOp.op = "set" /\ lastOp.key \notin Keys(cache)) => lastOp.evicted = {}

\* C24: every compress() call that was invoked eventually resolves or rejects.
C24_EveryCallSettles ==
  \A c \in Calls : (callPc[c] # "idle") ~> (callPc[c] \in {"resolved", "rejected"})

\* a call was rejected after it had used up the retries of one error code
C24_Witness ==
  \E c \in Calls :
    /\ callPc[c] = "rejected"
    /\ retries[c] >= MaxRetries
    /\ IsRetryableError(callError[c])

\* C25: a call rejected with a retryable error has received the full retry
\* budget, whatever other calls on the instance went through.
C25_OwnRetryBudget ==
  \A c \in Calls :
    (callPc[c] = "rejected" /\ IsRetryableError(callError[c])) => retries[c] >= MaxRetries

\* C26: whenever compress() resolves, it resolves with an output object
\* built by generateOutput, never with undefined.
C26_ResolvesWithOutput ==
  \A c \in Calls : callPc[c] = "resolved" => callResult[c].kind = "output"

\* C27: a compress() of the engine that throws leaves compressionStats as it
\* was, and totalProcessed is the number of calls that returned a result.
C27_StatsCountReturnedCalls ==
  /\ [](compressionStats.totalProcessed = engineReturns)
  /\ [](Len(compressionStats.processingTimes) = engineReturns)
  /\ [][engineThrows' # engineThrows => compressionStats' = compressionStats]_vars

C27_Witness ==
  /\ engineThrows >= 1
  /\ engineReturns >= 1
  /\ engineLast.result.status = "CompressionError"
  /\ compressionStats.totalProcessed >= 1

\* C28: medianCut(pixels, maxColors) on a non-empty list with maxColors >= 1
\* comes back, and with at most maxColors colours.
C28_MedianCutTerminatesBounded ==
  (cutLast.called /\ Len(cutLast.pixels) >= 1 /\ cutLast.maxColors >= 1)
  => /\ cutLast.result.status = "ok"
     /\ Len(cutLast.result.colors) <= cutLast.maxColors

\* the filter byte that applyFiltering wrote in front of a row; the
\* WebAssembly path hands the filtered data on unchanged
C29_FilterOfRow(row) == At(pngStream, row * (pngImage.width * 4 + 1))

\* C29: in 'auto' mode the filter chosen for each row has the minimal score
\* of the five filters, and is the lowest-numbered filter with that score.
C29_AutoPicksFirstMinimalFilter ==
  pngPath = "wasm" =>
    \A row \in 0..(pngImage.height - 1) :
      LET chosen == C29_FilterOfRow(row)
          best == CalculateFilterScore(pngImage.data, pngImage.width, row, chosen)
      IN  /\ chosen \in 0..4
          /\ \A f \in 0..4 :
               LET score == CalculateFilterScore(pngImage.data, pngImage.width, row, f)
               IN  /\ best <= score
                   /\ score = best => chosen <= f

\* a row for which SUB beats NONE and ties with PAETH, and SUB is chosen
C29_Witness ==
  /\ pngPath = "wasm"
  /\ \E row \in 0..(pngImage.height - 1) :
       /\ C29_FilterOfRow(row) = 1
       /\ CalculateFilterScore(pngImage.data, pngImage.width, row, 1)
            < CalculateFilterScore(pngImage.data, pngImage.width, row, 0)
       /\ CalculateFilterScore(pngImage.data, pngImage.width, row, 1)
            = CalculateFilterScore(pngImage.data, pngImage.width, row, 4)

\* C30: analyzeContent marks an image as photograph exactly when the local
\* variance summed over the analysed pixels, divided by the pixel count,
\* exceeds 1000, and as graphic otherwise; exactly one of the two marks is set.
C30_PhotographIffComplex ==
  contentLast.called =>
    /\ contentLast.analysis.isPhotograph
         <=> FracLess(Frac(1000, 1), VarianceComplexity(contentLast.image))
    /\ contentLast.analysis.isPhotograph # contentLast.analysis.isGraphic

====
